---- MODULE Spec2Model ----
(***************************************************************************)
(* A model of recover_photos_albums.py: the schema resolver, the folder    *)
(* hierarchy builder, the album enumeration, the ordered membership        *)
(* reader, and the recovery driver with its chunked album population.      *)
(*                                                                         *)
(* Names of tables and columns, and titles, are sequences of one-character *)
(* strings, so that the regular expressions, the LIKE pattern and the      *)
(* '/'-join and split of the source are computed character by character.   *)
(* A nullable SQL value is a record [null, v].                             *)
(***************************************************************************)
EXTENDS Integers, Sequences, FiniteSets, TLC

VARIABLES
    db,           \* path -> the database file behind it (never written)
    cache,        \* functools.cache of get_album_table_columns: path -> entry
    inspections,  \* path -> number of times the catalog was inspected
    openConns,    \* connections opened by the core and not closed
    ncalls,       \* number of core calls made so far
    ret,          \* outcome of the last call: what it returned or raised
    pc,           \* position of create_and_populate_album
    args,         \* arguments of the running create_and_populate_album
    stale,        \* identifiers the host application no longer resolves
    album,        \* photos of the album being populated, in order
    log,          \* console notices of uuids_to_photos
    progress,     \* progress bar: identifiers advanced over
    library       \* items the host application was asked to create

vars == <<db, cache, inspections, openConns, ncalls, ret, pc, args, stale,
          album, log, progress, library>>

---------------------------------------------------------------------------
\* Bounds of the model.
MaxTables == 2      \* tables in the catalog
MaxCols == 3        \* columns of a membership table
NumAlbums == 3      \* rows of ZGENERICALBUM besides the library root
MaxPhotos == 3      \* assets in the store
MaxUuids == 11      \* identifiers handed to create_and_populate_album
MaxCalls == 3       \* core calls in one run

---------------------------------------------------------------------------
\* SQL values.
Null == [null |-> TRUE, v |-> 0]
V(x) == [null |-> FALSE, v |-> x]
NullStr == [null |-> TRUE, v |-> <<>>]

\* Python truthiness of a fetched number or None.
TruthyNum(x) == ~x.null /\ x.v # 0
\* Python truthiness of a fetched string or None.
TruthyStr(x) == ~x.null /\ x.v # <<>>

Paths == {"p1", "p2"}

---------------------------------------------------------------------------
\* Names.
Digits == {"0", "1", "2", "3", "4", "5", "6", "7", "8", "9"}
Zu == <<"Z", "_">>
ASSETS == <<"A", "S", "S", "E", "T", "S">>
ALBUMS == <<"A", "L", "B", "U", "M", "S">>
FOK == <<"F", "O", "K", "_">>

T28Assets == Zu \o <<"2", "8">> \o ASSETS
T3Assets == Zu \o <<"3">> \o ASSETS
TDecoy == Zu \o <<"3", "K", "E", "Y">> \o ASSETS
TGeneric == <<"Z", "G", "E", "N", "E", "R", "I", "C", "A", "L", "B", "U", "M">>
TableNames == {T28Assets, T3Assets, TDecoy, TGeneric}

CAlbums == Zu \o <<"2", "8">> \o ALBUMS
CAssets == Zu \o <<"3">> \o ASSETS
CSort == Zu \o FOK \o <<"3">> \o ASSETS
CSortB == Zu \o FOK \o <<"4">> \o ASSETS
ColumnNames == {CAlbums, CAssets, CSort, CSortB}
DefaultCols == <<CAlbums, CAssets, CSort>>

HasPrefix(name, p) == Len(name) >= Len(p) /\ SubSeq(name, 1, Len(p)) = p
HasSuffix(name, s) ==
    Len(name) >= Len(s) /\ SubSeq(name, Len(name) - Len(s) + 1, Len(name)) = s

\* re.match(r"^<prefix>\d+<suffix>$", name), for a name without a line break.
ReMatch(name, prefix, suffix) ==
    /\ Len(name) >= Len(prefix) + 1 + Len(suffix)
    /\ HasPrefix(name, prefix)
    /\ HasSuffix(name, suffix)
    /\ \A i \in (Len(prefix) + 1)..(Len(name) - Len(suffix)) : name[i] \in Digits

ReMatchTable(name) == ReMatch(name, Zu, ASSETS)
ReMatchAlbumColumn(name) == ReMatch(name, Zu, ALBUMS)
ReMatchJoinColumn(name) == ReMatch(name, Zu, ASSETS)
ReMatchSortColumn(name) == ReMatch(name, Zu \o FOK, ASSETS)

\* name LIKE 'Z_%ASSETS': 'Z', any one character, anything, 'ASSETS'.
SqlLikeAssets(name) ==
    /\ Len(name) >= 2 + Len(ASSETS)
    /\ name[1] = "Z"
    /\ HasSuffix(name, ASSETS)

---------------------------------------------------------------------------
\* get_album_table_columns

None == <<>>

\* SELECT name FROM sqlite_master WHERE type='table' AND name LIKE 'Z_%ASSETS'
AssetsTables(d) == SelectSeq(d.tables, SqlLikeAssets)

RECURSIVE LastTableMatch(_)
LastTableMatch(tables) ==
    IF tables = <<>> THEN None
    ELSE IF ReMatchTable(tables[Len(tables)]) THEN tables[Len(tables)]
    ELSE LastTableMatch(SubSeq(tables, 1, Len(tables) - 1))

\* The loop over assets_tables: the first strict match, or None.
RECURSIVE FindAssetsTable(_)
FindAssetsTable(tables) ==
    IF tables = <<>> THEN None
    ELSE IF ReMatchTable(tables[1]) THEN tables[1]
    ELSE FindAssetsTable(Tail(tables))

\* PRAGMA table_info(<table>): the column names, in column order.
TableInfo(d, table) == d.columns[table]

\* The loop over the columns: each column sets at most one of the three.
RECURSIVE ScanColumns(_, _)
ScanColumns(columns, acc) ==
    IF columns = <<>> THEN acc
    ELSE LET col == columns[1] IN
         ScanColumns(Tail(columns),
            IF ReMatchAlbumColumn(col) THEN [acc EXCEPT !.album_column = col]
            ELSE IF ReMatchJoinColumn(col) THEN [acc EXCEPT !.album_join = col]
            ELSE IF ReMatchSortColumn(col) THEN [acc EXCEPT !.sort_column = col]
            ELSE acc)

NoColumns == [album_column |-> None, sort_column |-> None, album_join |-> None]

ColumnsUnresolvedNoJoin(c) == c.album_column = None \/ c.sort_column = None
\* if not album_column or not sort_column or not album_join
ColumnsUnresolved(c) ==
    c.album_column = None \/ c.sort_column = None \/ c.album_join = None

\* The body of get_album_table_columns on database d: what it returns or
\* raises, and whether it ends with its connection still open.
Resolve(d) ==
    LET table == FindAssetsTable(AssetsTables(d)) IN
    IF table = None
    THEN [status |-> "raise", error |-> "no table", leaked |-> 1,
          value |-> None]
    ELSE LET c == ScanColumns(TableInfo(d, table), NoColumns) IN
         IF ColumnsUnresolved(c)
         THEN [status |-> "raise", error |-> "no columns", leaked |-> 0,
               value |-> None]
         ELSE [status |-> "ok", error |-> "", leaked |-> 0,
               value |-> [table |-> table, album_join |-> c.album_join,
                          album_column |-> c.album_column,
                          sort_column |-> c.sort_column]]

NoEntry == [hit |-> FALSE, value |-> None]

CacheNeverStores(r) == FALSE
\* @cache keeps what a call returned; a call that raised leaves no entry.
CacheStores(r) == r.status = "ok"

\* A call of the memoized get_album_table_columns(p): the outcome, and the
\* cache, inspection count and open connections after it.
CallResolver(p, c, i, o) ==
    IF c[p].hit
    THEN [status |-> "ok", error |-> "", value |-> c[p].value, cached |-> TRUE,
          cache |-> c, inspections |-> i, openConns |-> o]
    ELSE LET r == Resolve(db[p]) IN
         [status |-> r.status, error |-> r.error, value |-> r.value,
          cached |-> FALSE,
          cache |-> IF CacheStores(r)
                    THEN [c EXCEPT ![p] = [hit |-> TRUE, value |-> r.value]]
                    ELSE c,
          inspections |-> [i EXCEPT ![p] = @ + 1],
          openConns |-> o + r.leaked]

---------------------------------------------------------------------------
\* The store: ZGENERICALBUM, ZASSET and the membership table.

KindAlbum == 2
KindFolder == 4000
KindRoot == 3999
KindOther == 1507

AlbumUuid(pk) == 100 + pk
AssetUuid(pk) == 200 + pk

\* A row of ZGENERICALBUM.
AlbumRow(pk, title, parent, kind, trashed, date, sortKey, sortAsc) ==
    [pk |-> pk, uuid |-> AlbumUuid(pk), title |-> title, parent |-> parent,
     kind |-> kind, trashed |-> trashed, trashedDate |-> date,
     sortKey |-> sortKey, sortAsc |-> sortAsc]

RootRow == AlbumRow(1, NullStr, Null, KindRoot, 0, Null, 1, 1)

\* Equality of two SQL values in a join or WHERE condition: never true of NULL.
SqlEq(x, y) == ~x.null /\ ~y.null /\ x.v = y.v

---------------------------------------------------------------------------
\* build_folder_hierarchy

\* CASE WHEN fh.path = '' THEN ZG.ZTITLE ELSE fh.path || '/' || ZG.ZTITLE END
CasePathNoJoin(path, title) == title
CasePath(path, title) ==
    IF ~path.null /\ path.v = <<>> THEN title
    ELSE IF path.null \/ title.null THEN NullStr
    ELSE V(path.v \o <<"/">> \o title.v)

\* Base case of the recursive query: the rows of kind 3999.
CteBase(albums) ==
    {[pk |-> albums[i].pk, level |-> 0, path |-> V(<<>>)] :
        i \in {j \in DOMAIN albums : albums[j].kind = KindRoot}}

\* Recursive case: the albums and folders whose parent is a row of fh.
CteStep(albums, fh) ==
    {[pk |-> albums[i].pk, level |-> r.level + 1,
      path |-> CasePath(r.path, albums[i].title)] :
        <<i, r>> \in {x \in (DOMAIN albums) \X fh :
            /\ SqlEq(albums[x[1]].parent, V(x[2].pk))
            /\ albums[x[1]].kind \in {KindAlbum, KindFolder}}}

RECURSIVE CteRows(_, _)
CteRows(albums, fh) ==
    IF fh = {} THEN {} ELSE fh \cup CteRows(albums, CteStep(albums, fh))

\* SELECT pk, path FROM folder_hierarchy WHERE level > 0
HierarchyQuery(d) == {r \in CteRows(d.albums, CteBase(d.albums)) : r.level > 0}

\* str.split("/")
RECURSIVE Split(_)
Split(s) ==
    IF \A i \in DOMAIN s : s[i] # "/" THEN <<s>>
    ELSE LET i == CHOOSE k \in DOMAIN s :
                    s[k] = "/" /\ \A j \in 1..(k - 1) : s[j] # "/"
         IN <<SubSeq(s, 1, i - 1)>> \o Split(SubSeq(s, i + 1, Len(s)))

\* The dictionary build_folder_hierarchy returns: pk -> list of titles.
BuildFolderHierarchy(d) ==
    LET results == HierarchyQuery(d) IN
    [pk \in {r.pk : r \in results} |->
        LET r == CHOOSE x \in results : x.pk = pk IN
        IF TruthyStr(r.path) THEN Split(r.path.v) ELSE <<>>]

\* folder_paths.get(pk, [])
DictGet(fp, pk) == IF pk \in DOMAIN fp THEN fp[pk] ELSE <<>>

---------------------------------------------------------------------------
\* ORDER BY: a sort key is a sequence of [null, v, desc]; NULL is the
\* smallest value, so first in an ascending term and last in a descending one.
Term(x, desc) == [null |-> x.null, v |-> x.v, desc |-> desc]

TermEq(a, b) == (a.null /\ b.null) \/ (~a.null /\ ~b.null /\ a.v = b.v)
TermAscLess(a, b) == (a.null /\ ~b.null) \/ (~a.null /\ ~b.null /\ a.v < b.v)
TermLess(a, b) == IF a.desc THEN TermAscLess(b, a) ELSE TermAscLess(a, b)

RECURSIVE KeyLE(_, _)
KeyLE(k1, k2) ==
    IF k1 = <<>> THEN TRUE
    ELSE IF TermEq(k1[1], k2[1]) THEN KeyLE(Tail(k1), Tail(k2))
    ELSE TermLess(k1[1], k2[1])

\* The orders in which the store may return the rows of S under ORDER BY
\* their keys: rows with equal keys come in any order.
RECURSIVE Unordered(_)
Unordered(S) ==
    IF S = {} THEN {<<>>}
    ELSE UNION {{<<m>> \o t : t \in Unordered(S \ {m})} : m \in S}

RECURSIVE OrderBy(_)
OrderBy(S) ==
    IF S = {} THEN {<<>>}
    ELSE UNION {{<<m>> \o t : t \in OrderBy(S \ {m})} :
                    m \in {x \in S : \A y \in S : KeyLE(x.key, y.key)}}

---------------------------------------------------------------------------
\* get_albums_info

TimeDelta == 978307200
\* osxphotos photos_datetime_local: seconds since 2001-01-01 to a datetime.
PhotosDatetimeLocal(ts) == [tag |-> "datetime", v |-> ts + TimeDelta]

\* if trashed_date := album_data[6]: album_data[6] = photos_datetime_local(...)
ConvertTrashedDate(x) ==
    IF TruthyNum(x) THEN PhotosDatetimeLocal(x.v)
    ELSE IF x.null THEN [tag |-> "none", v |-> 0]
    ELSE [tag |-> "raw", v |-> x.v]

\* COUNT(ZAL.<album_join>) over the LEFT JOIN ... ON ZG.Z_PK = ZAL.<album_column>
PhotoCount(d, b, pk) ==
    Cardinality({i \in DOMAIN d.members :
        /\ SqlEq(d.members[i][b.album_column], V(pk))
        /\ ~d.members[i][b.album_join].null})

\* The rows the enumeration query selects, each with its ORDER BY key.
AlbumsQueryRows(d, b) ==
    {[pk |-> a.pk, uuid |-> a.uuid, title |-> a.title, parent |-> a.parent,
      kind |-> a.kind, trashed |-> a.trashed, trashedDate |-> a.trashedDate,
      photo_count |-> PhotoCount(d, b, a.pk),
      key |-> <<Term(a.trashedDate, FALSE)>>] :
        a \in {d.albums[i] : i \in {j \in DOMAIN d.albums :
                  /\ d.albums[j].kind \in {KindAlbum, KindFolder}
                  /\ ~d.albums[j].parent.null}}}

AlbumsQueryUnordered(d, b) == Unordered(AlbumsQueryRows(d, b))
\* ... ORDER BY ZG.ZTRASHEDDATE
AlbumsQuery(d, b) == OrderBy(AlbumsQueryRows(d, b))

\* The Album object made of one fetched row.
MakeAlbum(row, folder_paths) ==
    [pk |-> row.pk, uuid |-> row.uuid, title |-> row.title,
     parent |-> row.parent, kind |-> row.kind, trashed |-> row.trashed,
     trashed_date |-> ConvertTrashedDate(row.trashedDate),
     photo_count |-> row.photo_count,
     folder_path |-> DictGet(folder_paths, row.pk)]

\* The lists get_albums_info may return once the schema is resolved to b.
AlbumLists(d, b) ==
    LET folder_paths == BuildFolderHierarchy(d) IN
    {[i \in DOMAIN rows |-> MakeAlbum(rows[i], folder_paths)] :
        rows \in AlbumsQuery(d, b)}

---------------------------------------------------------------------------
\* get_photos_in_album

\* COLLATE NOCASE on a one-letter title, held as its character code.
NoCase(x) == IF ~x.null /\ x.v \in 65..90 THEN V(x.v + 32) ELSE x

PhotoKeyTitleAlways(zg, za, zal, b) ==
    << Term(NoCase(za.title), FALSE),
       Term(IF zg.sortKey = 0 THEN zal[b.sort_column] ELSE Null, FALSE),
       Term(IF zg.sortKey = 1 /\ zg.sortAsc = 1 THEN za.dateCreated ELSE Null,
            FALSE),
       Term(IF zg.sortKey = 1 /\ zg.sortAsc = 0 THEN za.dateCreated ELSE Null,
            TRUE) >>
\* The four ORDER BY terms of the membership query, for one joined row.
PhotoKey(zg, za, zal, b) ==
    << Term(IF zg.sortKey = 5 THEN NoCase(za.title) ELSE Null, FALSE),
       Term(IF zg.sortKey = 0 THEN zal[b.sort_column] ELSE Null, FALSE),
       Term(IF zg.sortKey = 1 /\ zg.sortAsc = 1 THEN za.dateCreated ELSE Null,
            FALSE),
       Term(IF zg.sortKey = 1 /\ zg.sortAsc = 0 THEN za.dateCreated ELSE Null,
            TRUE) >>

\* The joined rows of ZASSET, the membership table and ZGENERICALBUM for the
\* album with the given uuid.  The asset's title stands for the LEFT JOIN of
\* its additional-attributes row.
PhotosQueryRows(d, b, uuid) ==
    {[uuid |-> d.assets[x[1]].uuid, rowid |-> x[2],
      key |-> PhotoKey(d.albums[x[3]], d.assets[x[1]], d.members[x[2]], b)] :
        x \in {y \in (DOMAIN d.assets) \X (DOMAIN d.members) \X (DOMAIN d.albums) :
            /\ SqlEq(V(d.assets[y[1]].pk), d.members[y[2]][b.album_join])
            /\ SqlEq(d.members[y[2]][b.album_column], V(d.albums[y[3]].pk))
            /\ d.albums[y[3]].uuid = uuid}}

\* The lists get_photos_in_album may return once the schema is resolved to b.
PhotoLists(d, b, uuid) ==
    {[i \in DOMAIN rows |-> rows[i].uuid] :
        rows \in OrderBy(PhotosQueryRows(d, b, uuid))}

---------------------------------------------------------------------------
\* The host application: uuids_to_photos and the chunks of
\* create_and_populate_album.

ChunkSize == 10

Min(a, b) == IF a < b THEN a ELSE b

\* The loop of uuids_to_photos: photoscript.Photo(uuid) raises ValueError for
\* an identifier the host no longer resolves; it is logged and skipped.
RECURSIVE PhotosLoop(_, _, _, _)
PhotosLoop(uuids, dead, photos, notices) ==
    IF uuids = <<>> THEN [photos |-> photos, log |-> notices]
    ELSE IF uuids[1] \in dead
    THEN PhotosLoop(Tail(uuids), dead, photos, Append(notices, uuids[1]))
    ELSE PhotosLoop(Tail(uuids), dead, Append(photos, uuids[1]), notices)

\* The identifiers before the first stale one, as if the error ended the loop.
RECURSIVE LivePrefix(_, _)
LivePrefix(uuids, dead) ==
    IF uuids = <<>> \/ uuids[1] \in dead THEN <<>>
    ELSE <<uuids[1]>> \o LivePrefix(Tail(uuids), dead)

UuidsToPhotosStop(uuids, dead) ==
    PhotosLoop(LivePrefix(uuids, dead), dead, <<>>, <<>>)

UuidsToPhotos(uuids, dead) == PhotosLoop(uuids, dead, <<>>, <<>>)

\* Python's None or a list, for the folder_path argument.
NoPath == [none |-> TRUE, v |-> <<>>]
SomePath(path) == [none |-> FALSE, v |-> path]

NoArgs == [title |-> <<>>, uuids |-> <<>>, folder_path |-> NoPath]
NoRet == [op |-> "none", path |-> "", status |-> "ok", error |-> "",
          value |-> <<>>, selected |-> 0, cached |-> FALSE]

---------------------------------------------------------------------------
\* The core operations, each a whole call.

HostUnchanged == UNCHANGED <<pc, args, stale, album, log, progress, library>>

Returned(op, p, r, value) ==
    [NoRet EXCEPT !.op = op, !.path = p, !.status = r.status,
                  !.error = r.error, !.value = value, !.cached = r.cached]

\* What a call of the resolver leaves behind.
ResolverEffects(r) ==
    /\ cache' = r.cache
    /\ inspections' = r.inspections
    /\ openConns' = r.openConns

GetAlbumTableColumns(p) ==
    /\ ncalls < MaxCalls
    /\ LET r == CallResolver(p, cache, inspections, openConns) IN
        /\ ResolverEffects(r)
        /\ ret' = Returned("get_album_table_columns", p, r, r.value)
    /\ ncalls' = ncalls + 1
    /\ UNCHANGED db
    /\ HostUnchanged

\* build_folder_hierarchy opens a connection, runs its query and closes it.
BuildFolderHierarchyCall(p) ==
    /\ ncalls < MaxCalls
    /\ ret' = [NoRet EXCEPT !.op = "build_folder_hierarchy", !.path = p,
                            !.value = BuildFolderHierarchy(db[p])]
    /\ ncalls' = ncalls + 1
    /\ UNCHANGED <<db, cache, inspections, openConns>>
    /\ HostUnchanged

\* get_albums_info: the resolver, the hierarchy, then the enumeration query
\* on a connection of its own, closed after the fetch.
GetAlbumsInfo(p) ==
    /\ ncalls < MaxCalls
    /\ LET r == CallResolver(p, cache, inspections, openConns) IN
        /\ ResolverEffects(r)
        /\ IF r.status = "raise"
           THEN ret' = Returned("get_albums_info", p, r, <<>>)
           ELSE \E list \in AlbumLists(db[p], r.value) :
                    ret' = Returned("get_albums_info", p, r, list)
    /\ ncalls' = ncalls + 1
    /\ UNCHANGED db
    /\ HostUnchanged

\* get_photos_in_album: the resolver, then the membership query on a
\* connection of its own, closed after the fetch.
GetPhotosInAlbum(p, uuid) ==
    /\ ncalls < MaxCalls
    /\ LET r == CallResolver(p, cache, inspections, openConns) IN
        /\ ResolverEffects(r)
        /\ IF r.status = "raise"
           THEN ret' = Returned("get_photos_in_album", p, r, <<>>)
           ELSE \E photos \in PhotoLists(db[p], r.value, uuid) :
                    ret' = [Returned("get_photos_in_album", p, r, photos)
                                EXCEPT !.selected = uuid]
    /\ ncalls' = ncalls + 1
    /\ UNCHANGED db
    /\ HostUnchanged

---------------------------------------------------------------------------
\* main and the selection prompt.

\* '/'.join(folder_path)
RECURSIVE Join(_)
Join(path) ==
    IF path = <<>> THEN <<>>
    ELSE IF Len(path) = 1 THEN path[1]
    ELSE path[1] \o <<"/">> \o Join(Tail(path))

\* The line select_album_or_exit shows for an album.
DisplayText(a) ==
    [title |-> a.title,
     folder |-> IF a.folder_path # <<>> THEN Join(a.folder_path) ELSE <<>>,
     in_folder |-> a.folder_path # <<>>,
     item_type |-> IF a.kind = KindFolder THEN "folder" ELSE "album",
     date |-> a.trashed_date.v \div 86400,  \* strftime('%Y-%m-%d')
     photos |-> IF a.kind = KindAlbum THEN a.photo_count ELSE 0]

\* album_choices[display_text] = album: of the albums shown with the same
\* line, the last one is the one a choice selects.
Selectable(albums) ==
    {i \in DOMAIN albums : \A j \in DOMAIN albums :
        j > i => DisplayText(albums[j]) # DisplayText(albums[i])}

IsTrashed(a) == a.trashed # 0

\* album.folder_path[:-1] if album.folder_path and len(album.folder_path) > 1
ParentPath(a) ==
    IF a.folder_path # <<>> /\ Len(a.folder_path) > 1
    THEN SubSeq(a.folder_path, 1, Len(a.folder_path) - 1)
    ELSE <<>>

\* The folder branch of main: the path handed to create_folder.
FolderArgument(a) ==
    IF ParentPath(a) # <<>> THEN Append(ParentPath(a), a.title.v)
    ELSE <<a.title.v>>

\* The album branch of main: the folder_path handed on, None at root level.
AlbumFolderArgument(a) ==
    IF ParentPath(a) # <<>> THEN SomePath(ParentPath(a)) ELSE NoPath

Main(p) ==
    /\ ncalls = 0
    /\ pc = "idle"
    /\ ncalls' = 1
    /\ UNCHANGED <<db, stale, album, log, progress>>
    /\ LET r == CallResolver(p, cache, inspections, openConns) IN
       IF r.status = "raise"
       THEN /\ ret' = Returned("main", p, r, <<>>)
            /\ ResolverEffects(r)
            /\ UNCHANGED <<pc, args, library>>
       ELSE \E list \in AlbumLists(db[p], r.value) :
            LET albums == SelectSeq(list, IsTrashed) IN
            IF albums = <<>>
            THEN /\ ret' = [Returned("main", p, r, <<>>)
                                EXCEPT !.error = "none found"]
                 /\ ResolverEffects(r)
                 /\ UNCHANGED <<pc, args, library>>
            ELSE IF \E i \in DOMAIN albums :
                        albums[i].trashed_date.tag # "datetime"
            THEN \* trashed_date.strftime on None or a number
                 /\ ret' = [Returned("main", p, r, <<>>)
                                EXCEPT !.status = "raise",
                                       !.error = "strftime"]
                 /\ ResolverEffects(r)
                 /\ UNCHANGED <<pc, args, library>>
            ELSE \E i \in Selectable(albums), confirm \in BOOLEAN :
                 LET a == albums[i] IN
                 IF ~confirm
                 THEN /\ ret' = [Returned("main", p, r, <<>>)
                                    EXCEPT !.status = "exit"]
                      /\ ResolverEffects(r)
                      /\ UNCHANGED <<pc, args, library>>
                 ELSE IF a.kind = KindFolder
                 THEN /\ library' = Append(library,
                            [op |-> "make_folders", title |-> <<>>,
                             path |-> FolderArgument(a)])
                      /\ ret' = [Returned("main", p, r, <<>>)
                                    EXCEPT !.selected = a.pk]
                      /\ ResolverEffects(r)
                      /\ UNCHANGED <<pc, args>>
                 ELSE \* get_photos_in_album asks the resolver again
                      LET r2 == CallResolver(p, r.cache, r.inspections,
                                             r.openConns) IN
                      IF r2.status = "raise"
                      THEN /\ ret' = Returned("main", p, r2, <<>>)
                           /\ ResolverEffects(r2)
                           /\ UNCHANGED <<pc, args, library>>
                      ELSE \E photo_uuids \in PhotoLists(db[p], r2.value, a.uuid) :
                           /\ pc' = "create"
                           /\ args' = [title |-> a.title.v,
                                       uuids |-> photo_uuids,
                                       folder_path |-> AlbumFolderArgument(a)]
                           /\ ret' = [Returned("main", p, r2, <<>>)
                                         EXCEPT !.selected = a.pk]
                           /\ ResolverEffects(r2)
                           /\ UNCHANGED library

---------------------------------------------------------------------------
\* create_and_populate_album, one step per host request.

CoreUnchanged == UNCHANGED <<db, cache, inspections, openConns, ncalls, ret>>

\* make_album_folders(title, folder_path) or create_album(title)
CreateAlbum ==
    /\ pc = "create"
    /\ library' = Append(library,
          IF ~args.folder_path.none /\ Len(args.folder_path.v) > 0
          THEN [op |-> "make_album_folders", title |-> args.title,
                path |-> args.folder_path.v]
          ELSE [op |-> "create_album", title |-> args.title, path |-> <<>>])
    /\ album' = <<>>
    /\ progress' = 0
    /\ pc' = IF Len(args.uuids) > 0 THEN "chunks" ELSE "return"
    /\ UNCHANGED <<args, stale, log>>
    /\ CoreUnchanged

\* One turn of the loop over chunked(uuids, 10).
AddChunk ==
    /\ pc = "chunks"
    /\ LET chunk == SubSeq(args.uuids, progress + 1,
                           Min(progress + ChunkSize, Len(args.uuids)))
           r == UuidsToPhotos(chunk, stale)
       IN /\ album' = album \o r.photos
          /\ log' = log \o r.log
          /\ progress' = progress + Len(chunk)
          /\ pc' = IF progress + Len(chunk) < Len(args.uuids)
                   THEN "chunks" ELSE "return"
    /\ UNCHANGED <<args, stale, library>>
    /\ CoreUnchanged

Return ==
    /\ pc = "return"
    /\ pc' = "done"
    /\ UNCHANGED <<args, stale, album, log, progress, library>>
    /\ CoreUnchanged

---------------------------------------------------------------------------
\* Stores.

MemberRow(albumPk, assetPk, sort) ==
    [c \in {CAlbums, CAssets, CSort} |->
        IF c = CAlbums THEN V(albumPk)
        ELSE IF c = CAssets THEN V(assetPk) ELSE sort]

AssetRow(pk, date, title) ==
    [pk |-> pk, uuid |-> AssetUuid(pk), dateCreated |-> date, title |-> title]

PlainA == <<"A">>
PlainB == <<"B">>
SlashTitle == <<"A", "/", "B">>
Titles == {PlainA, PlainB, SlashTitle}

DefaultTables == <<TGeneric, TDecoy, T28Assets>>
DefaultColumns == [t \in TableNames |-> DefaultCols]
DefaultAlbums == <<RootRow, AlbumRow(2, V(PlainA), V(1), KindAlbum, 1, V(5), 0, 1)>>
DefaultAssets == <<AssetRow(1, V(1), V(97)), AssetRow(2, V(2), V(66))>>
DefaultMembers == <<MemberRow(2, 1, V(1)), MemberRow(2, 2, V(2))>>

MkDB(tables, columns, albums, assets, members) ==
    [tables |-> tables, columns |-> columns, albums |-> albums,
     assets |-> assets, members |-> members]

DefaultDB ==
    MkDB(DefaultTables, DefaultColumns, DefaultAlbums, DefaultAssets,
         DefaultMembers)

\* Sequences without repetition of at most n elements of S.
ListsOf(S, n) ==
    {s \in UNION {[1..k -> S] : k \in 0..n} :
        \A i, j \in DOMAIN s : i # j => s[i] # s[j]}

InitRun ==
    /\ cache = [p \in Paths |-> NoEntry]
    /\ inspections = [p \in Paths |-> 0]
    /\ openConns = 0
    /\ ncalls = 0
    /\ ret = NoRet

InitHost ==
    /\ pc = "idle"
    /\ args = NoArgs
    /\ stale = {}
    /\ album = <<>>
    /\ log = <<>>
    /\ progress = 0
    /\ library = <<>>

---------------------------------------------------------------------------
\* Schema resolution over catalogs and column layouts.

AllColumnNames == ColumnNames \cup {Zu \o FOK \o <<"2", "8">> \o ALBUMS}

InitSchema ==
    /\ \E tables \in ListsOf(TableNames, MaxTables), focus \in TableNames,
          cols \in ListsOf(AllColumnNames, MaxCols) :
          db = [p \in Paths |->
                  IF p = "p1"
                  THEN [DefaultDB EXCEPT !.tables = tables,
                                         !.columns[focus] = cols]
                  ELSE DefaultDB]
    /\ InitRun
    /\ InitHost

NextSchema == GetAlbumTableColumns("p1")

SpecSchema == InitSchema /\ [][NextSchema]_vars

---------------------------------------------------------------------------
\* Any sequence of core calls on two paths.

NoTableDB == [DefaultDB EXCEPT !.tables = <<TGeneric, TDecoy>>]
NoSortDB == [DefaultDB EXCEPT !.columns[T28Assets] = <<CAlbums, CAssets>>]
SchemaVariants == {DefaultDB, NoTableDB, NoSortDB}

InitCache ==
    /\ db \in [Paths -> SchemaVariants]
    /\ InitRun
    /\ InitHost

NextCache ==
    \E p \in Paths :
        \/ GetAlbumTableColumns(p)
        \/ BuildFolderHierarchyCall(p)
        \/ GetAlbumsInfo(p)
        \/ \E uuid \in {AlbumUuid(2), AlbumUuid(9)} : GetPhotosInAlbum(p, uuid)

SpecCache == InitCache /\ [][NextCache]_vars

---------------------------------------------------------------------------
\* Folder hierarchies.

AlbumPKs == 2..(NumAlbums + 1)
Kinds == {KindAlbum, KindFolder, KindOther}

\* The tables of a root and NumAlbums items below it, each with a parent of
\* smaller key (the hierarchy is a tree).
Hierarchies(trashedOf) ==
    {[i \in 1..(NumAlbums + 1) |->
        IF i = 1 THEN RootRow
        ELSE AlbumRow(i, V(t[i]), V(par[i]), k[i], trashedOf[i],
                      IF trashedOf[i] = 1 THEN V(i) ELSE Null, 0, 1)] :
        t \in [AlbumPKs -> Titles], k \in [AlbumPKs -> Kinds],
        par \in {f \in [AlbumPKs -> 1..NumAlbums] : \A i \in AlbumPKs : f[i] < i}}

InitHierarchy ==
    /\ \E albums \in Hierarchies([i \in AlbumPKs |-> 1]) :
          db = [p \in Paths |-> [DefaultDB EXCEPT !.albums = albums]]
    /\ InitRun
    /\ InitHost

\* One call for each store.
NextHierarchy == ncalls = 0 /\ BuildFolderHierarchyCall("p1")

SpecHierarchy == InitHierarchy /\ [][NextHierarchy]_vars

---------------------------------------------------------------------------
\* A recovery run.

InitMain ==
    /\ \E tr \in [AlbumPKs -> {0, 1}] : \E albums \in Hierarchies(tr) :
          db = [p \in Paths |-> [DefaultDB EXCEPT !.albums = albums]]
    /\ InitRun
    /\ pc = "idle"
    /\ args = NoArgs
    /\ stale = {AssetUuid(2)}
    /\ album = <<>>
    /\ log = <<>>
    /\ progress = 0
    /\ library = <<>>

NextMain == Main("p1") \/ CreateAlbum \/ AddChunk \/ Return

SpecMain == InitMain /\ [][NextMain]_vars

---------------------------------------------------------------------------
\* Enumeration over trashed timestamps.

TrashedDates == {Null, V(0), V(1), V(2)}

InitAlbums ==
    /\ \E k \in [AlbumPKs -> {KindAlbum, KindFolder}],
          t \in [AlbumPKs -> TrashedDates] :
          db = [p \in Paths |->
                  [DefaultDB EXCEPT !.albums =
                      [i \in 1..(NumAlbums + 1) |->
                          IF i = 1 THEN RootRow
                          ELSE AlbumRow(i, V(PlainA), V(1), k[i],
                                        IF t[i].null THEN 0 ELSE 1, t[i],
                                        0, 1)]]]
    /\ InitRun
    /\ InitHost

\* One call for each store.
NextAlbums == ncalls = 0 /\ GetAlbumsInfo("p1")

SpecAlbums == InitAlbums /\ [][NextAlbums]_vars

---------------------------------------------------------------------------
\* Membership over sort modes.

PhotoPKs(n) == 1..n

InitPhotos ==
    /\ \E n \in 0..MaxPhotos, key \in {0, 1, 5}, asc \in {0, 1} :
       \E date \in [PhotoPKs(n) -> {V(1), V(2)}],
          title \in [PhotoPKs(n) -> {V(66), V(97)}],
          sort \in [PhotoPKs(n) -> {V(1), V(2)}] :
          db = [p \in Paths |->
                  [DefaultDB EXCEPT
                      !.albums = <<RootRow,
                          AlbumRow(2, V(PlainA), V(1), KindAlbum, 1, V(5), key, asc),
                          AlbumRow(3, V(PlainB), V(1), KindAlbum, 1, V(6), 0, 1)>>,
                      !.assets = [i \in PhotoPKs(n) |->
                                    AssetRow(i, date[i], title[i])],
                      !.members = [i \in 1..n |-> MemberRow(2, i, sort[i])]
                                  \o (IF n > 0 THEN <<MemberRow(3, 1, V(1))>>
                                      ELSE <<>>)]]
    /\ InitRun
    /\ InitHost

\* One call for each store.
NextPhotos ==
    /\ ncalls = 0
    /\ \E uuid \in {AlbumUuid(2), AlbumUuid(3)} : GetPhotosInAlbum("p1", uuid)

SpecPhotos == InitPhotos /\ [][NextPhotos]_vars

---------------------------------------------------------------------------
\* Populating an album from a list with stale identifiers.

InitPopulate ==
    /\ db = [p \in Paths |-> DefaultDB]
    /\ InitRun
    /\ pc = "create"
    /\ \E n \in 0..MaxUuids, fp \in {NoPath, SomePath(<<PlainB>>)} :
          args = [title |-> PlainA, uuids |-> [i \in 1..n |-> AssetUuid(i)],
                  folder_path |-> fp]
    /\ stale \in SUBSET {AssetUuid(i) : i \in 1..MaxUuids}
    /\ stale \subseteq {args.uuids[i] : i \in DOMAIN args.uuids}
    /\ album = <<>>
    /\ log = <<>>
    /\ progress = 0
    /\ library = <<>>

NextPopulate == CreateAlbum \/ AddChunk \/ Return

SpecPopulate == InitPopulate /\ [][NextPopulate]_vars

---------------------------------------------------------------------------
\* What the properties below are stated in: the names that follow each
\* pattern, and the chain of an item up to the library root.

StrictTableNames == {T28Assets, T3Assets}
AlbumColumnNames == {CAlbums}
JoinColumnNames == {CAssets}
SortColumnNames == {CSort, CSortB}

StrictIn(d) == {i \in DOMAIN d.tables : d.tables[i] \in StrictTableNames}
FirstStrict(d) ==
    d.tables[CHOOSE i \in StrictIn(d) : \A j \in StrictIn(d) : i <= j]
Range(s) == {s[i] : i \in DOMAIN s}

\* The titles from the root's child down to the item itself, and whether the
\* root is reached through albums and folders only.
RECURSIVE ChainOf(_, _)
ChainOf(albums, pk) ==
    LET row == albums[pk] IN
    IF row.kind = KindRoot THEN [ok |-> TRUE, titles |-> <<>>]
    ELSE IF row.kind \notin {KindAlbum, KindFolder} \/ row.parent.null
    THEN [ok |-> FALSE, titles |-> <<>>]
    ELSE LET up == ChainOf(albums, row.parent.v) IN
         [ok |-> up.ok, titles |-> up.titles \o <<row.title.v>>]

Reachable(albums) ==
    {pk \in DOMAIN albums : albums[pk].kind # KindRoot /\ ChainOf(albums, pk).ok}

\* The titles of the proper ancestors below the root, root-first.
AncestorTitles(albums, pk) ==
    LET ch == ChainOf(albums, pk) IN
    IF ch.ok /\ ch.titles # <<>>
    THEN SubSeq(ch.titles, 1, Len(ch.titles) - 1) ELSE <<>>

Plain(titles) ==
    \A i \in DOMAIN titles :
        titles[i] # <<>> /\ \A j \in DOMAIN titles[i] : titles[i][j] # "/"

IsHierarchy == ret.op = "build_folder_hierarchy"
IsResolution == ret.op = "get_album_table_columns"
IsAlbumList == ret.op = "get_albums_info" /\ ret.status = "ok"
IsPhotoList == ret.op = "get_photos_in_album" /\ ret.status = "ok"

---------------------------------------------------------------------------
C2_FailsUnlessOneTable ==
    IsResolution =>
        (Cardinality(StrictIn(db[ret.path])) # 1 => ret.status = "raise")

\* C2, amended: resolution fails for want of a table exactly when no table
\* matches the strict pattern; with one match or several it goes on with the
\* first match in catalog order.
C2_FirstTableWins ==
    IsResolution =>
        /\ StrictIn(db[ret.path]) = {} =>
              ret.status = "raise" /\ ret.error = "no table"
        /\ StrictIn(db[ret.path]) # {} =>
              /\ ret.error # "no table"
              /\ ret.status = "ok" => ret.value.table = FirstStrict(db[ret.path])

C2_Witness ==
    /\ IsResolution
    /\ ret.status = "ok"
    /\ Cardinality(StrictIn(db[ret.path])) = 2
    /\ ret.value.table = db[ret.path].tables[1]

\* C3: a returned binding names a table of the catalog that matches the
\* strict pattern and three pairwise distinct columns of that table, one per
\* role; a table lacking a column for a role makes the call fail.
C3_Binding ==
    IsResolution =>
        /\ ret.status = "ok" =>
              LET b == ret.value
                  cols == Range(db[ret.path].columns[b.table])
              IN /\ b.table \in StrictTableNames \cap Range(db[ret.path].tables)
                 /\ b.album_join \in JoinColumnNames \cap cols
                 /\ b.album_column \in AlbumColumnNames \cap cols
                 /\ b.sort_column \in SortColumnNames \cap cols
                 /\ b.album_join # b.album_column
                 /\ b.album_join # b.sort_column
                 /\ b.album_column # b.sort_column
        /\ StrictIn(db[ret.path]) # {} =>
              LET cols == Range(db[ret.path].columns[FirstStrict(db[ret.path])])
              IN (\/ cols \cap JoinColumnNames = {}
                  \/ cols \cap AlbumColumnNames = {}
                  \/ cols \cap SortColumnNames = {}) => ret.status = "raise"

C3_Witness ==
    /\ IsResolution
    /\ ret.status = "ok"
    /\ \E i \in DOMAIN db[ret.path].tables :
          /\ db[ret.path].tables[i] = TDecoy
          /\ \E j \in StrictIn(db[ret.path]) : i < j
    /\ db[ret.path].columns[ret.value.table] # DefaultCols

\* C4: trashed_date is null exactly when the stored timestamp is null, and
\* is the local-time conversion of every other stored value, zero included.
C4_TrashedDateConverted ==
    IsAlbumList =>
        \A i \in DOMAIN ret.value :
            LET stored == db[ret.path].albums[ret.value[i].pk].trashedDate IN
            /\ ret.value[i].trashed_date.tag = "none" <=> stored.null
            /\ ~stored.null =>
                  ret.value[i].trashed_date = PhotosDatetimeLocal(stored.v)

\* C5: of two returned records with stored timestamps t_i < t_j, the one
\* with t_i comes first.
C5_AscendingTrashedDate ==
    IsAlbumList =>
        \A i, j \in DOMAIN ret.value :
            LET ti == db[ret.path].albums[ret.value[i].pk].trashedDate
                tj == db[ret.path].albums[ret.value[j].pk].trashedDate
            IN (~ti.null /\ ~tj.null /\ ti.v < tj.v) => i < j

C5_Witness ==
    /\ IsAlbumList
    /\ Len(ret.value) = 3
    /\ ret.value[1].pk > ret.value[2].pk
    /\ ret.value[2].pk > ret.value[3].pk
    /\ db[ret.path].albums[ret.value[1].pk].trashedDate = V(0)
    /\ db[ret.path].albums[ret.value[2].pk].trashedDate = V(1)
    /\ db[ret.path].albums[ret.value[3].pk].trashedDate = V(2)

---------------------------------------------------------------------------
\* The album a membership list was read for, and the stored values of the
\* photo at a position of the list.
AlbumOfUuid(d, uuid) ==
    d.albums[CHOOSE i \in DOMAIN d.albums : d.albums[i].uuid = uuid]
AssetOfUuid(d, uuid) ==
    d.assets[CHOOSE i \in DOMAIN d.assets : d.assets[i].uuid = uuid]
SortValueOf(d, albumPk, uuid) ==
    d.members[CHOOSE i \in DOMAIN d.members :
        /\ d.members[i][CAlbums] = V(albumPk)
        /\ d.members[i][CAssets] = V(AssetOfUuid(d, uuid).pk)][CSort]
HasAlbum(d, uuid) == \E i \in DOMAIN d.albums : d.albums[i].uuid = uuid

\* C6, as stated: under manual sort the identifiers are strictly increasing
\* in the sort-order value, under by-date ascending strictly increasing by
\* creation timestamp, under by-date descending decreasing by it.
C6_StrictlyOrdered ==
    (IsPhotoList /\ HasAlbum(db[ret.path], ret.selected)) =>
        LET d == db[ret.path]
            zg == AlbumOfUuid(d, ret.selected)
        IN \A i, j \in DOMAIN ret.value : i < j =>
            LET si == SortValueOf(d, zg.pk, ret.value[i]).v
                sj == SortValueOf(d, zg.pk, ret.value[j]).v
                di == AssetOfUuid(d, ret.value[i]).dateCreated.v
                dj == AssetOfUuid(d, ret.value[j]).dateCreated.v
            IN /\ zg.sortKey = 0 => si < sj
               /\ (zg.sortKey = 1 /\ zg.sortAsc = 1) => di < dj
               /\ (zg.sortKey = 1 /\ zg.sortAsc = 0) => di >= dj

\* C6, amended: under manual sort the identifiers are in non-decreasing order
\* of the sort-order value, under by-date ascending in non-decreasing order of
\* creation timestamp, under by-date descending in non-increasing order of it
\* (strictly so between photos whose values differ), whatever the titles and
\* the values of the orderings not selected.
C6_Ordered ==
    (IsPhotoList /\ HasAlbum(db[ret.path], ret.selected)) =>
        LET d == db[ret.path]
            zg == AlbumOfUuid(d, ret.selected)
        IN \A i, j \in DOMAIN ret.value : i < j =>
            LET si == SortValueOf(d, zg.pk, ret.value[i]).v
                sj == SortValueOf(d, zg.pk, ret.value[j]).v
                di == AssetOfUuid(d, ret.value[i]).dateCreated.v
                dj == AssetOfUuid(d, ret.value[j]).dateCreated.v
            IN /\ zg.sortKey = 0 => si <= sj
               /\ (zg.sortKey = 1 /\ zg.sortAsc = 1) => di <= dj
               /\ (zg.sortKey = 1 /\ zg.sortAsc = 0) => di >= dj

C6_Witness ==
    /\ IsPhotoList
    /\ ret.selected = AlbumUuid(2)
    /\ AlbumOfUuid(db[ret.path], ret.selected).sortKey = 0
    /\ Len(ret.value) = 3
    /\ LET d == db[ret.path] IN
        /\ SortValueOf(d, 2, ret.value[1]) = V(1)
        /\ SortValueOf(d, 2, ret.value[2]) = V(2)
        /\ SortValueOf(d, 2, ret.value[3]) = V(2)
        /\ AssetOfUuid(d, ret.value[1]).title = V(66)
        /\ AssetOfUuid(d, ret.value[2]).title = V(97)
        /\ AssetOfUuid(d, ret.value[1]).dateCreated = V(2)
        /\ AssetOfUuid(d, ret.value[2]).dateCreated = V(1)

---------------------------------------------------------------------------
IsLive(uuid) == uuid \notin stale
IsStale(uuid) == uuid \in stale

\* C7: the population runs to its end over chunks of at most 10, and at every
\* point the album holds the resolvable identifiers among those advanced
\* over, in their order, and the log one notice for each of the others.
C7_StaleSkipped ==
    /\ pc \in {"chunks", "return", "done"} =>
          LET seen == SubSeq(args.uuids, 1, progress) IN
          /\ album = SelectSeq(seen, IsLive)
          /\ log = SelectSeq(seen, IsStale)
    /\ pc = "chunks" => progress < Len(args.uuids) /\ progress % ChunkSize = 0
    /\ pc \in {"return", "done"} => progress = Len(args.uuids)
    /\ pc \in {"create", "chunks", "return"} => ENABLED NextPopulate

C7_Witness ==
    /\ pc = "done"
    /\ Len(args.uuids) > ChunkSize
    /\ args.uuids[1] \in stale
    /\ args.uuids[2] \notin stale
    /\ args.uuids[ChunkSize + 1] \notin stale
    /\ Len(log) = 1
    /\ Len(album) = Len(args.uuids) - 1

---------------------------------------------------------------------------
\* C8: between calls no connection opened by the core is still open.
C8_ConnectionsClosed == openConns = 0

ResolvableDBs == {DefaultDB}

\* C9, as stated: on every path the catalog is inspected by the first call
\* only.
C9_InspectedOnce == \A p \in Paths : inspections[p] <= 1

\* C9, amended: on a path whose schema resolves the catalog is inspected
\* once, by the first call that needs the binding; every later call there
\* returns the memoized binding without inspecting it again, and a call
\* leaves the entry and the count of every other path alone.  (A resolution
\* that fails is not memoized: the next call on that path inspects again.)
C9_ResolvedOnce ==
    [][\A p \in Paths :
        /\ db[p] \in ResolvableDBs => inspections'[p] <= 1
        /\ cache[p].hit =>
              /\ cache'[p] = cache[p]
              /\ inspections'[p] = inspections[p]
              /\ (ret'.path = p /\ ret'.op = "get_album_table_columns")
                    => ret'.value = cache[p].value
        /\ ret'.path # p =>
              cache'[p] = cache[p] /\ inspections'[p] = inspections[p]]_vars

C9_Witness ==
    /\ IsPhotoList
    /\ ret.cached
    /\ cache[ret.path].hit
    /\ inspections[ret.path] = 1
    /\ \E q \in Paths : q # ret.path /\ inspections[q] = 0 /\ ~cache[q].hit

---------------------------------------------------------------------------
\* C10: a recovered album is created under its own title in the folders of
\* its proper ancestors (at root level when it has none or is unreachable),
\* a recovered folder at the path of its ancestors followed by its own title.
C10_OriginalLocation ==
    (ret.op = "main" /\ ret.selected # 0) =>
        LET albums == db[ret.path].albums
            row == albums[ret.selected]
            anc == AncestorTitles(albums, ret.selected)
        IN IF row.kind = KindAlbum
           THEN /\ pc # "idle"
                /\ args.title = row.title.v
                /\ args.folder_path = IF anc = <<>> THEN NoPath ELSE SomePath(anc)
           ELSE /\ library # <<>>
                /\ library[Len(library)] =
                      [op |-> "make_folders", title |-> <<>>,
                       path |-> anc \o <<row.title.v>>]
====
